---- MODULE Spec2Model ----
(***************************************************************************)
(* A model of list.c: a singly linked list of elem values behind a list_t  *)
(* handle.  The heap is explicit: node addresses, the value and next field *)
(* of every allocated node, and the head field of the list structure.  Each *)
(* C function is an operator from a memory state (and its arguments) to    *)
(* the memory state it leaves, its return value and whether it terminated  *)
(* the process; loops are RECURSIVE operators that walk the chain the way  *)
(* the C loops do.                                                         *)
(***************************************************************************)
EXTENDS Integers, Sequences, FiniteSets, TLC

\* ---------------------------------------------------------------- bounds
\* Number of node addresses malloc can hand out.
MaxNodes == 3
\* Largest element value; the smallest is the sentinel value -1.
MaxVal == 1
\* How far beyond [1, MaxNodes] the index arguments range on both sides.
IndexSlack == 2
\* How many allocation calls of one listToString call may be made to fail.
MaxAllocs == 3
\* The longest list of the specification StrSpec.
MaxStrNodes == 45

\* -------------------------------------------------------------- constants
\* The null pointer.
NULL == 0
\* The value the removal and lookup functions return on failure.
FAIL == -1

Nodes == 1..MaxNodes
\* The address of the list_t structure, distinct from every node address.
LIST == MaxNodes + 1
\* elem is a signed integer type (printed with %d); -1 is a legal element.
Values == FAIL..MaxVal
Indices == (1 - IndexSlack)..(MaxNodes + IndexSlack)

VARIABLES
    list,      \* the caller's list_t *: NULL or LIST
    head,      \* list->head
    next,      \* node->next, for every allocated node
    value,     \* node->value, for every allocated node
    alloc,     \* the node addresses malloc'ed and not yet freed
    frees,     \* the addresses the last call passed to free(), in order
    stale,     \* the released nodes the last call read a field of
    proc,      \* "running", or "exited" once exit() was called
    op,        \* the call that just returned (or exited), its arguments and
               \* its return value; NoCall between calls
    old,       \* the memory state that call started from
    phase,     \* how the list was built since list_alloc (see Track)
    pushed,    \* the values added by list_add_to_back in phase "backs"/"pops"
    popped     \* the values returned by list_remove_from_back in phase "pops"

vars == <<list, head, next, value, alloc, frees, stale, proc, op, old, phase,
          pushed, popped>>

\* The memory state as one record, the argument of the operators below.
Mem == [list |-> list, head |-> head, next |-> next, value |-> value,
        alloc |-> alloc, frees |-> frees, stale |-> stale]

\* What a call leaves: memory, return value (0 for a void function), and
\* whether the call ended the process instead of returning.
Result(m, r) == [m |-> m, ret |-> r, exited |-> FALSE]
Exited(m) == [m |-> m, ret |-> 0, exited |-> TRUE]

\* C's true and false, the values list_is_in returns.
true == 1
false == 0

\* free(n): the node's fields go with it.
Free(m, n) ==
    [m EXCEPT !.alloc = m.alloc \ {n},
              !.frees = Append(m.frees, n),
              !.next = [x \in DOMAIN m.next \ {n} |-> m.next[x]],
              !.value = [x \in DOMAIN m.value \ {n} |-> m.value[x]]]

\* What malloc may return for a node: NULL on failure, or a free address.  No
\* function compares, orders or prints addresses, so the lowest free address
\* stands for any of them; with none free, malloc fails.
MallocChoices(m) ==
    LET free == Nodes \ m.alloc
    IN {NULL} \cup {n \in free : \A x \in free : n <= x}

\* The elements of the chain from cursor on, in order.
RECURSIVE Chain(_, _)
Chain(m, cursor) ==
    IF cursor = NULL THEN <<>>
    ELSE <<m.value[cursor]>> \o Chain(m, m.next[cursor])

Contents(m) == IF m.list = NULL THEN <<>> ELSE Chain(m, m.head)

\* ------------------------------------------------------------ list_alloc
\* l is what malloc returned for the list structure.
list_alloc(m, l) ==
    IF l = NULL THEN Result(m, NULL)
    ELSE Result([m EXCEPT !.list = l, !.head = NULL], l)

\* ------------------------------------------------------------- list_free
\* list_free with "if (current != NULL)" for the while: only the head goes.
list_free_loop_once(m, current) ==
    IF current # NULL THEN Free(m, current) ELSE m

\* The loop reads current->next, then frees current.  Reading a field of a
\* released node is undefined behaviour: it is recorded in stale, and the
\* walk, which has no pointer to follow, ends there.
RECURSIVE list_free_loop(_, _)
list_free_loop(m, current) ==
    IF current # NULL
    THEN IF current \in m.alloc
         THEN LET next_node == m.next[current]
              IN list_free_loop(Free(m, current), next_node)
         ELSE [m EXCEPT !.stale = m.stale \cup {current}]
    ELSE m

\* free(list) releases the structure; the caller's pointer is of no use
\* afterwards and is modelled as given up.
list_free(m) ==
    IF m.list = NULL THEN Result(m, 0)
    ELSE LET f == list_free_loop(m, m.head)
         IN Result([f EXCEPT !.frees = Append(f.frees, m.list),
                             !.list = NULL, !.head = NULL], 0)

\* ----------------------------------------------------------- list_length
RECURSIVE list_length_loop(_, _, _)
list_length_loop(m, cursor, count) ==
    IF cursor # NULL THEN list_length_loop(m, m.next[cursor], count + 1)
    ELSE count

list_length(m) ==
    IF m.list = NULL THEN 0 ELSE list_length_loop(m, m.head, 0)

\* ----------------------------------------------------------- create_node
\* n is what malloc returned.  On NULL the process exits.
create_node(m, v, n) ==
    IF n = NULL THEN [node |-> NULL, m |-> m, exited |-> TRUE]
    ELSE [node |-> n,
          m |-> [m EXCEPT !.alloc = m.alloc \cup {n},
                          !.value = (n :> v) @@ m.value,
                          !.next = (n :> NULL) @@ m.next],
          exited |-> FALSE]

\* ------------------------------------------------------ list_add_to_back
RECURSIVE add_to_back_loop(_, _)
add_to_back_loop(m, cursor) ==
    IF m.next[cursor] # NULL THEN add_to_back_loop(m, m.next[cursor])
    ELSE cursor

\* list_add_to_back without the walk to the tail: the new node is linked
\* after the head.
list_add_to_back_no_walk(m, v, n) ==
    IF m.list = NULL THEN Result(m, 0)
    ELSE LET c == create_node(m, v, n)
         IN IF c.exited THEN Exited(m)
            ELSE IF c.m.head = NULL
                 THEN Result([c.m EXCEPT !.head = c.node], 0)
                 ELSE Result([c.m EXCEPT !.next[c.m.head] = c.node], 0)

list_add_to_back(m, v, n) ==
    IF m.list = NULL THEN Result(m, 0)
    ELSE LET c == create_node(m, v, n)
         IN IF c.exited THEN Exited(m)
            ELSE IF c.m.head = NULL
                 THEN Result([c.m EXCEPT !.head = c.node], 0)
                 ELSE LET cursor == add_to_back_loop(c.m, c.m.head)
                      IN Result([c.m EXCEPT !.next[cursor] = c.node], 0)

\* ----------------------------------------------------- list_add_to_front
\* list_add_to_front without "if (list == NULL) return".
list_add_to_front_no_null_check(m, v, n) ==
    LET c == create_node(m, v, n)
    IN IF c.exited THEN Exited(m)
       ELSE Result([c.m EXCEPT !.next[c.node] = c.m.head, !.head = c.node], 0)

\* list_add_to_front without "new_node->next = list->head".
list_add_to_front_no_link(m, v, n) ==
    IF m.list = NULL THEN Result(m, 0)
    ELSE LET c == create_node(m, v, n)
         IN IF c.exited THEN Exited(m)
            ELSE Result([c.m EXCEPT !.head = c.node], 0)

list_add_to_front(m, v, n) ==
    IF m.list = NULL THEN Result(m, 0)
    ELSE LET c == create_node(m, v, n)
         IN IF c.exited THEN Exited(m)
            ELSE Result([c.m EXCEPT !.next[c.node] = c.m.head,
                                    !.head = c.node], 0)

\* ----------------------------------------------------- list_add_at_index
\* The cursor the loop "while (cursor != NULL && pos < index - 1)" stops at.
RECURSIVE index_loop(_, _, _, _)
index_loop(m, cursor, pos, index) ==
    IF cursor # NULL /\ pos < index - 1
    THEN index_loop(m, m.next[cursor], pos + 1, index)
    ELSE cursor

\* list_add_at_index with the walk started at pos 0: one node too far.
list_add_at_index_pos0(m, v, index, n) ==
    IF m.list = NULL THEN Result(m, 0)
    ELSE IF index < 1 THEN Result(m, 0)
    ELSE IF index = 1 THEN list_add_to_front(m, v, n)
    ELSE LET cursor == index_loop(m, m.head, 0, index)
         IN IF cursor = NULL THEN Result(m, 0)
            ELSE LET c == create_node(m, v, n)
                 IN IF c.exited THEN Exited(m)
                    ELSE Result([c.m EXCEPT !.next[c.node] = c.m.next[cursor],
                                            !.next[cursor] = c.node], 0)

\* list_add_at_index without "new_node->next = cursor->next".
list_add_at_index_no_link(m, v, index, n) ==
    IF m.list = NULL THEN Result(m, 0)
    ELSE IF index < 1 THEN Result(m, 0)
    ELSE IF index = 1 THEN list_add_to_front(m, v, n)
    ELSE LET cursor == index_loop(m, m.head, 1, index)
         IN IF cursor = NULL THEN Result(m, 0)
            ELSE LET c == create_node(m, v, n)
                 IN IF c.exited THEN Exited(m)
                    ELSE Result([c.m EXCEPT !.next[cursor] = c.node], 0)

\* list_add_at_index without "if (index < 1) return".
list_add_at_index_no_check(m, v, index, n) ==
    IF m.list = NULL THEN Result(m, 0)
    ELSE IF index = 1 THEN list_add_to_front(m, v, n)
    ELSE LET cursor == index_loop(m, m.head, 1, index)
         IN IF cursor = NULL THEN Result(m, 0)
            ELSE LET c == create_node(m, v, n)
                 IN IF c.exited THEN Exited(m)
                    ELSE Result([c.m EXCEPT !.next[c.node] = c.m.next[cursor],
                                            !.next[cursor] = c.node], 0)

list_add_at_index(m, v, index, n) ==
    IF m.list = NULL THEN Result(m, 0)
    ELSE IF index < 1 THEN Result(m, 0)
    ELSE IF index = 1 THEN list_add_to_front(m, v, n)
    ELSE LET cursor == index_loop(m, m.head, 1, index)
         IN IF cursor = NULL THEN Result(m, 0)
            ELSE LET c == create_node(m, v, n)
                 IN IF c.exited THEN Exited(m)
                    ELSE Result([c.m EXCEPT !.next[c.node] = c.m.next[cursor],
                                            !.next[cursor] = c.node], 0)

\* ------------------------------------------------- list_remove_from_back
\* The cursor the loop "while (cursor->next->next != NULL)" stops at.
RECURSIVE remove_from_back_loop(_, _)
remove_from_back_loop(m, cursor) ==
    IF m.next[m.next[cursor]] # NULL
    THEN remove_from_back_loop(m, m.next[cursor])
    ELSE cursor

\* list_remove_from_back without "free(last)" in the case of several nodes.
list_remove_from_back_no_free(m) ==
    IF m.list = NULL \/ m.head = NULL THEN Result(m, FAIL)
    ELSE IF m.next[m.head] = NULL
    THEN LET v == m.value[m.head]
         IN Result([Free(m, m.head) EXCEPT !.head = NULL], v)
    ELSE LET cursor == remove_from_back_loop(m, m.head)
             last == m.next[cursor]
             v == m.value[last]
         IN Result([m EXCEPT !.next[cursor] = NULL], v)

\* list_remove_from_back returning the value of the node before the last.
list_remove_from_back_cursor_value(m) ==
    IF m.list = NULL \/ m.head = NULL THEN Result(m, FAIL)
    ELSE IF m.next[m.head] = NULL
    THEN LET v == m.value[m.head]
         IN Result([Free(m, m.head) EXCEPT !.head = NULL], v)
    ELSE LET cursor == remove_from_back_loop(m, m.head)
             last == m.next[cursor]
             v == m.value[cursor]
         IN Result(Free([m EXCEPT !.next[cursor] = NULL], last), v)

list_remove_from_back(m) ==
    IF m.list = NULL \/ m.head = NULL THEN Result(m, FAIL)
    ELSE IF m.next[m.head] = NULL
    THEN LET v == m.value[m.head]
         IN Result([Free(m, m.head) EXCEPT !.head = NULL], v)
    ELSE LET cursor == remove_from_back_loop(m, m.head)
             last == m.next[cursor]
             v == m.value[last]
         IN Result(Free([m EXCEPT !.next[cursor] = NULL], last), v)

\* ------------------------------------------------ list_remove_from_front
\* list_remove_from_front with "list->head = NULL" for "list->head = to_remove->next".
list_remove_from_front_drop(m) ==
    IF m.list = NULL \/ m.head = NULL THEN Result(m, FAIL)
    ELSE LET to_remove == m.head
             v == m.value[to_remove]
         IN Result(Free([m EXCEPT !.head = NULL], to_remove), v)

list_remove_from_front(m) ==
    IF m.list = NULL \/ m.head = NULL THEN Result(m, FAIL)
    ELSE LET to_remove == m.head
             v == m.value[to_remove]
         IN Result(Free([m EXCEPT !.head = m.next[to_remove]], to_remove), v)

\* -------------------------------------------------- list_remove_at_index
\* list_remove_at_index with "cursor->next = NULL" for "cursor->next = to_remove->next".
list_remove_at_index_cut(m, index) ==
    IF m.list = NULL \/ m.head = NULL THEN Result(m, FAIL)
    ELSE IF index < 1 THEN Result(m, FAIL)
    ELSE IF index = 1 THEN list_remove_from_front(m)
    ELSE LET cursor == index_loop(m, m.head, 1, index)
         IN IF cursor = NULL \/ m.next[cursor] = NULL THEN Result(m, FAIL)
            ELSE LET to_remove == m.next[cursor]
                     v == m.value[to_remove]
                 IN Result(Free([m EXCEPT !.next[cursor] = NULL], to_remove), v)

\* list_remove_at_index without "if (index < 1) return -1".
list_remove_at_index_no_check(m, index) ==
    IF m.list = NULL \/ m.head = NULL THEN Result(m, FAIL)
    ELSE IF index = 1 THEN list_remove_from_front(m)
    ELSE LET cursor == index_loop(m, m.head, 1, index)
         IN IF cursor = NULL \/ m.next[cursor] = NULL THEN Result(m, FAIL)
            ELSE LET to_remove == m.next[cursor]
                     v == m.value[to_remove]
                 IN Result(Free([m EXCEPT !.next[cursor] = m.next[to_remove]],
                                to_remove), v)

list_remove_at_index(m, index) ==
    IF m.list = NULL \/ m.head = NULL THEN Result(m, FAIL)
    ELSE IF index < 1 THEN Result(m, FAIL)
    ELSE IF index = 1 THEN list_remove_from_front(m)
    ELSE LET cursor == index_loop(m, m.head, 1, index)
         IN IF cursor = NULL \/ m.next[cursor] = NULL THEN Result(m, FAIL)
            ELSE LET to_remove == m.next[cursor]
                     v == m.value[to_remove]
                 IN Result(Free([m EXCEPT !.next[cursor] = m.next[to_remove]],
                                to_remove), v)

\* ------------------------------------------------------ list_get_elem_at
RECURSIVE get_elem_at_loop(_, _, _, _)
get_elem_at_loop(m, cursor, pos, index) ==
    IF cursor # NULL
    THEN IF pos = index THEN m.value[cursor]
         ELSE get_elem_at_loop(m, m.next[cursor], pos + 1, index)
    ELSE FAIL

\* list_get_elem_at counting positions from 0.
list_get_elem_at_from0(m, index) ==
    IF m.list = NULL \/ index < 1 THEN FAIL
    ELSE get_elem_at_loop(m, m.head, 0, index)

list_get_elem_at(m, index) ==
    IF m.list = NULL \/ index < 1 THEN FAIL
    ELSE get_elem_at_loop(m, m.head, 1, index)

\* ------------------------------------------------------------ list_is_in
RECURSIVE is_in_loop(_, _, _)
is_in_loop(m, cursor, v) ==
    IF cursor # NULL
    THEN IF m.value[cursor] = v THEN true
         ELSE is_in_loop(m, m.next[cursor], v)
    ELSE false

list_is_in(m, v) ==
    IF m.list = NULL THEN false ELSE is_in_loop(m, m.head, v)

\* ----------------------------------------------------- list_get_index_of
RECURSIVE get_index_of_loop(_, _, _, _)
get_index_of_loop(m, cursor, pos, v) ==
    IF cursor # NULL
    THEN IF m.value[cursor] = v THEN pos
         ELSE get_index_of_loop(m, m.next[cursor], pos + 1, v)
    ELSE FAIL

\* list_get_index_of that keeps walking after a match: the last occurrence.
RECURSIVE get_index_of_last_loop(_, _, _, _, _)
get_index_of_last_loop(m, cursor, pos, v, found) ==
    IF cursor # NULL
    THEN get_index_of_last_loop(m, m.next[cursor], pos + 1, v,
                                IF m.value[cursor] = v THEN pos ELSE found)
    ELSE found

list_get_index_of_last(m, v) ==
    IF m.list = NULL THEN FAIL
    ELSE get_index_of_last_loop(m, m.head, 1, v, FAIL)

list_get_index_of(m, v) ==
    IF m.list = NULL THEN FAIL ELSE get_index_of_loop(m, m.head, 1, v)

\* ------------------------------------------------------------------ text
\* Text is a sequence of one-character strings; NUL is the terminating byte.
NUL == "NUL"
NL == "\n"

\* What printf and snprintf write for %d: a minus sign for a negative
\* number, then its decimal digits, most significant first.
Digit(d) == <<"0", "1", "2", "3", "4", "5", "6", "7", "8", "9">>[d + 1]

RECURSIVE Digits(_)
Digits(k) ==
    IF k < 10 THEN <<Digit(k)>> ELSE Digits(k \div 10) \o <<Digit(k % 10)>>

Decimal(v) == IF v < 0 THEN <<"-">> \o Digits(0 - v) ELSE Digits(v)

\* ----------------------------------------------------------- listToString
\* The output buffer of listToString:
\*   cells    : the bytes written so far, by offset;
\*   size     : the size of the allocation buf points to;
\*   capacity : the variable `capacity`;
\*   used     : the variable `used`;
\*   first    : the size malloc was asked for;
\*   calls    : how many times malloc or realloc was called;
\*   inBounds : every write so far was at an offset below `size`;
\*   grown    : no realloc so far made the allocation smaller.
InitialCapacity == 256

\* buf[off] = ch.  A write outside the allocation is undefined behaviour: it
\* is recorded in inBounds, and what it hits is not modelled.
WriteByte(b, off, ch) ==
    IF off < b.size
    THEN [b EXCEPT !.cells = (off :> ch) @@ b.cells]
    ELSE [b EXCEPT !.inBounds = FALSE]

\* memcpy(buf + off, text, Len(text)): a byte write at each of the offsets
\* off .. off + Len(text) - 1.
Memcpy(b, off, text) ==
    LET offs == off..(off + Len(text) - 1)
        inside == {o \in offs : o < b.size}
    IN [b EXCEPT !.cells = [o \in DOMAIN b.cells \cup inside |->
                               IF o \in inside THEN text[o - off + 1]
                               ELSE b.cells[o]],
                 !.inBounds = b.inBounds /\ inside = offs]

\* A realloc that hands out a fresh block and copies nothing.
Realloc_no_copy(b, newsize) ==
    [b EXCEPT !.size = newsize,
              !.cells = <<>>,
              !.calls = b.calls + 1,
              !.grown = b.grown /\ newsize >= b.size]

\* realloc(buf, newsize), when it succeeds: the bytes below newsize are kept.
Realloc(b, newsize) ==
    [b EXCEPT !.size = newsize,
              !.cells = [o \in {x \in DOMAIN b.cells : x < newsize} |-> b.cells[o]],
              !.calls = b.calls + 1,
              !.grown = b.grown /\ newsize >= b.size]

\* The C string at buf: the bytes before the first NUL (or before the first
\* byte never written).
CString(cells) ==
    LET ends == {o \in 0..Cardinality(DOMAIN cells) :
                    o \notin DOMAIN cells \/ cells[o] = NUL}
        end == CHOOSE o \in ends : \A x \in ends : o <= x
    IN [i \in 1..end |-> cells[i - 1]]

\* "while (used + n + 1 >= newcap) newcap *= 2"
RECURSIVE newcap_loop(_, _)
newcap_loop(need, newcap) ==
    IF need >= newcap THEN newcap_loop(need, newcap * 2) ELSE newcap

\* What listToString returns: the list untouched, the pointer (NULL or BUF),
\* the string it points to, and the buffer's record.
BUF == 1
NoBuf == [cells |-> <<>>, size |-> 0, capacity |-> 0, used |-> 0, first |-> 0,
          calls |-> 0, inBounds |-> TRUE, grown |-> TRUE]

ToStringNull(m, b) ==
    [m |-> m, ret |-> NULL, exited |-> FALSE, str |-> <<>>, out |-> <<>>, buf |-> b]

\* to_string_loop without the growth check before the tail is appended.
RECURSIVE to_string_loop_no_tail_check(_, _, _, _)
to_string_loop_no_tail_check(m, cur, b, failAt) ==
    IF cur # NULL
    THEN LET tmp == Decimal(m.value[cur]) \o <<"-", ">">>
             n == Len(tmp)
             need == b.used + n + 1
             grow == need >= b.capacity
             newcap == newcap_loop(need, b.capacity * 2)
             b1 == IF grow
                   THEN [Realloc(b, newcap) EXCEPT !.capacity = newcap]
                   ELSE b
             b2 == Memcpy(b1, b1.used, tmp)
             b3 == WriteByte([b2 EXCEPT !.used = b2.used + n], b2.used + n, NUL)
         IN IF grow /\ b.calls + 1 = failAt
            THEN ToStringNull(m, [b EXCEPT !.calls = b.calls + 1])
            ELSE to_string_loop_no_tail_check(m, m.next[cur], b3, failAt)
    ELSE LET tail == <<"N", "U", "L", "L">>
             tail_len == Len(tail)
             b2 == Memcpy(b, b.used, tail)
             b3 == WriteByte([b2 EXCEPT !.used = b2.used + tail_len],
                             b2.used + tail_len, NUL)
         IN [m |-> m, ret |-> BUF, exited |-> FALSE,
             str |-> CString(b3.cells), out |-> <<>>, buf |-> b3]

\* The loop over the nodes, then the tail.  failAt is the number of the
\* allocation call that fails (0: none does).
RECURSIVE to_string_loop(_, _, _, _)
to_string_loop(m, cur, b, failAt) ==
    IF cur # NULL
    THEN LET tmp == Decimal(m.value[cur]) \o <<"-", ">">>
             n == Len(tmp)
             need == b.used + n + 1
             grow == need >= b.capacity
             newcap == newcap_loop(need, b.capacity * 2)
             b1 == IF grow
                   THEN [Realloc(b, newcap) EXCEPT !.capacity = newcap]
                   ELSE b
             b2 == Memcpy(b1, b1.used, tmp)
             b3 == WriteByte([b2 EXCEPT !.used = b2.used + n], b2.used + n, NUL)
         IN IF grow /\ b.calls + 1 = failAt
            THEN ToStringNull(m, [b EXCEPT !.calls = b.calls + 1])
            ELSE to_string_loop(m, m.next[cur], b3, failAt)
    ELSE LET tail == <<"N", "U", "L", "L">>
             tail_len == Len(tail)
             grow == b.used + tail_len + 1 >= b.capacity
             b1 == IF grow THEN Realloc(b, b.used + tail_len + 1) ELSE b
             b2 == Memcpy(b1, b1.used, tail)
             b3 == WriteByte([b2 EXCEPT !.used = b2.used + tail_len],
                             b2.used + tail_len, NUL)
         IN IF grow /\ b.calls + 1 = failAt
            THEN ToStringNull(m, [b EXCEPT !.calls = b.calls + 1])
            ELSE [m |-> m, ret |-> BUF, exited |-> FALSE,
                  str |-> CString(b3.cells), out |-> <<>>, buf |-> b3]

\* listToString walking with list->head itself instead of the local cur.
listToString_moving_head(m, failAt) ==
    IF m.list = NULL THEN ToStringNull(m, NoBuf)
    ELSE IF failAt = 1 THEN ToStringNull(m, [NoBuf EXCEPT !.calls = 1])
    ELSE LET capacity == InitialCapacity
             b == [NoBuf EXCEPT !.size = capacity,
                                !.capacity = capacity,
                                !.first = capacity,
                                !.calls = 1]
             r == to_string_loop(m, m.head, WriteByte(b, 0, NUL), failAt)
         IN IF r.ret = NULL THEN r ELSE [r EXCEPT !.m.head = NULL]

listToString(m, failAt) ==
    IF m.list = NULL THEN ToStringNull(m, NoBuf)
    ELSE IF failAt = 1 THEN ToStringNull(m, [NoBuf EXCEPT !.calls = 1])
    ELSE LET capacity == InitialCapacity
             b == [NoBuf EXCEPT !.size = capacity,
                                !.capacity = capacity,
                                !.first = capacity,
                                !.calls = 1]
         IN to_string_loop(m, m.head, WriteByte(b, 0, NUL), failAt)

\* ------------------------------------------------------------ list_print
\* What a call of list_print leaves: the list, and the text on stdout.
Printed(m, text) ==
    [m |-> m, ret |-> 0, exited |-> FALSE, str |-> <<>>, out |-> text, buf |-> NoBuf]

RECURSIVE list_print_loop(_, _, _)
list_print_loop(m, cursor, text) ==
    IF cursor # NULL
    THEN list_print_loop(m, m.next[cursor],
                         text \o Decimal(m.value[cursor]) \o <<" ", "-", ">">>)
    ELSE text

list_print(m) ==
    IF m.list = NULL
    THEN Printed(m, <<"L", "I", "S", "T", " ", "I", "S", " ", "N", "U", "L", "L", NL>>)
    ELSE IF m.head = NULL
    THEN Printed(m, <<"L", "I", "S", "T", " ", "I", "S", " ", "E", "M", "P", "T", "Y", NL>>)
    ELSE Printed(m, list_print_loop(m, m.head, <<>>) \o <<"N", "U", "L", "L", NL>>)

\* ------------------------------------------------------------- the calls
\* How the list was built since list_alloc, for the claims about lists built
\* by list_add_to_back alone:
\*   "none"  : the caller holds no list;
\*   "backs" : only list_add_to_back calls so far, which added `pushed`;
\*   "pops"  : those, then only list_remove_from_back calls, which returned
\*             `popped` (in call order), none of them on an empty list;
\*   "other" : anything else.
\* The query functions leave the phase alone.
Track(name, r) ==
    LET losing == /\ phase' = (IF r.m.list = NULL THEN "none" ELSE "other")
                  /\ pushed' = <<>>
                  /\ popped' = <<>>
    IN CASE r.exited -> UNCHANGED <<phase, pushed, popped>>
         [] name \in {"list_length", "list_get_elem_at", "list_is_in",
                      "list_get_index_of", "listToString", "list_print"} ->
                UNCHANGED <<phase, pushed, popped>>
         [] name = "list_alloc" ->
                /\ phase' = (IF r.m.list = NULL THEN "none" ELSE "backs")
                /\ pushed' = <<>>
                /\ popped' = <<>>
         [] name = "list_add_to_back" /\ phase = "backs" ->
                /\ phase' = "backs"
                /\ pushed' = Append(pushed, op'.value)
                /\ popped' = <<>>
         [] name = "list_remove_from_back" /\ phase \in {"backs", "pops"}
                /\ Len(popped) < Len(pushed) ->
                /\ phase' = "pops"
                /\ pushed' = pushed
                /\ popped' = Append(popped, r.ret)
         [] OTHER -> losing

\* No call is under observation.
NoCall == [name |-> "none", value |-> 0, index |-> 0, failAt |-> 0, ret |-> 0,
           str |-> <<>>, out |-> <<>>, buf |-> NoBuf]

\* One call of the API by a caller that is between calls: r is what the
\* function computed from Mem; str is the string it returned a pointer to,
\* out the text it wrote to stdout, buf the record of its output buffer.
CallOp(name, v, index, failAt, r, str, out, buf) ==
    /\ proc = "running"
    /\ op = NoCall
    /\ old' = Mem
    /\ list' = r.m.list
    /\ head' = r.m.head
    /\ next' = r.m.next
    /\ value' = r.m.value
    /\ alloc' = r.m.alloc
    /\ frees' = r.m.frees
    /\ stale' = r.m.stale
    /\ proc' = (IF r.exited THEN "exited" ELSE "running")
    /\ op' = [name |-> name, value |-> v, index |-> index, failAt |-> failAt,
              ret |-> r.ret, str |-> str, out |-> out, buf |-> buf]
    /\ Track(name, r)

Call(name, v, index, r) == CallOp(name, v, index, 0, r, <<>>, <<>>, NoBuf)

CallText(name, failAt, r) == CallOp(name, 0, 0, failAt, r, r.str, r.out, r.buf)

\* The caller allocates a list when it holds none.
CallAlloc ==
    /\ list = NULL
    /\ \E l \in {NULL, LIST} : Call("list_alloc", 0, 0, list_alloc(Mem, l))

CallFree == Call("list_free", 0, 0, list_free(Mem))

CallLength == Call("list_length", 0, 0, Result(Mem, list_length(Mem)))

CallAddToBack ==
    \E v \in Values : \E n \in MallocChoices(Mem) :
        Call("list_add_to_back", v, 0, list_add_to_back(Mem, v, n))

CallAddToFront ==
    \E v \in Values : \E n \in MallocChoices(Mem) :
        Call("list_add_to_front", v, 0, list_add_to_front(Mem, v, n))

CallAddAtIndex ==
    \E v \in Values : \E index \in Indices : \E n \in MallocChoices(Mem) :
        Call("list_add_at_index", v, index, list_add_at_index(Mem, v, index, n))

CallRemoveFromBack == Call("list_remove_from_back", 0, 0, list_remove_from_back(Mem))

CallRemoveFromFront == Call("list_remove_from_front", 0, 0, list_remove_from_front(Mem))

CallRemoveAtIndex ==
    \E index \in Indices :
        Call("list_remove_at_index", 0, index, list_remove_at_index(Mem, index))

CallGetElemAt ==
    \E index \in Indices :
        Call("list_get_elem_at", 0, index, Result(Mem, list_get_elem_at(Mem, index)))

CallIsIn ==
    \E v \in Values : Call("list_is_in", v, 0, Result(Mem, list_is_in(Mem, v)))

CallGetIndexOf ==
    \E v \in Values :
        Call("list_get_index_of", v, 0, Result(Mem, list_get_index_of(Mem, v)))

\* Which of listToString's allocation calls fails: none, or one of the first
\* MaxAllocs.
CallToString ==
    \E failAt \in 0..MaxAllocs :
        CallText("listToString", failAt, listToString(Mem, failAt))

CallPrint == CallText("list_print", 0, list_print(Mem))

\* The caller has used the return value and is ready for its next call; the
\* memory stays as the call left it.
Resume ==
    /\ proc = "running"
    /\ op # NoCall
    /\ op' = NoCall
    /\ frees' = <<>>
    /\ stale' = {}
    /\ old' = [Mem EXCEPT !.frees = <<>>, !.stale = {}]
    /\ UNCHANGED <<list, head, next, value, alloc, proc, phase, pushed, popped>>

\* Before any call: the caller holds no list and nothing is allocated.
Init ==
    /\ list = NULL
    /\ head = NULL
    /\ next = <<>>
    /\ value = <<>>
    /\ alloc = {}
    /\ frees = <<>>
    /\ stale = {}
    /\ proc = "running"
    /\ op = NoCall
    /\ old = [list |-> NULL, head |-> NULL, next |-> <<>>, value |-> <<>>,
              alloc |-> {}, frees |-> <<>>, stale |-> {}]
    /\ phase = "none"
    /\ pushed = <<>>
    /\ popped = <<>>

Next ==
    \/ CallAlloc
    \/ CallFree
    \/ CallLength
    \/ CallAddToBack
    \/ CallAddToFront
    \/ CallAddAtIndex
    \/ CallRemoveFromBack
    \/ CallRemoveFromFront
    \/ CallRemoveAtIndex
    \/ CallGetElemAt
    \/ CallIsIn
    \/ CallGetIndexOf
    \/ CallToString
    \/ CallPrint
    \/ Resume

Spec == Init /\ [][Next]_vars

\* ---------------------------------------------------------------- StrSpec
\* listToString and list_print as functions of the list: the list is any of
\* 0..MaxStrNodes nodes whose values repeat a pattern of one or two values
\* of any magnitude an int has, long enough for the buffer to grow twice.
BigValues == {-2147483647, -1, 0, 7, 42, 12345}
Patterns == {<<a>> : a \in BigValues} \cup (BigValues \X BigValues)

StrInit ==
    \E k \in 0..MaxStrNodes : \E p \in Patterns :
        /\ list = LIST
        /\ head = (IF k = 0 THEN NULL ELSE 1)
        /\ next = [i \in 1..k |-> IF i < k THEN i + 1 ELSE NULL]
        /\ value = [i \in 1..k |-> p[((i - 1) % Len(p)) + 1]]
        /\ alloc = 1..k
        /\ frees = <<>>
        /\ stale = {}
        /\ proc = "running"
        /\ op = NoCall
        /\ old = Mem
        /\ phase = "other"
        /\ pushed = <<>>
        /\ popped = <<>>

StrNext == CallToString \/ CallPrint \/ Resume

StrSpec == StrInit /\ [][StrNext]_vars

\* The memory is well formed: fields exist exactly for the allocated nodes.
TypeOK ==
    /\ list \in {NULL, LIST}
    /\ alloc \subseteq Nodes
    /\ DOMAIN next = alloc /\ DOMAIN value = alloc
    /\ head \in alloc \cup {NULL}
    /\ \A n \in alloc : next[n] \in alloc \cup {NULL} /\ value[n] \in Values
    /\ proc \in {"running", "exited"}
    /\ phase \in {"none", "backs", "pops", "other"}

\* =================================================================== claims
\* The last call was `name` and it returned to the caller.
Returned(name) == op.name = name /\ proc = "running"

\* The first call of the two has a live (non-NULL) list to work on.
OnLiveList == old.list # NULL

\* C1: starting from a newly created empty list, after n list_add_to_back
\* calls with values v1..vn, list_length returns n and list_get_elem_at(i)
\* returns vi for every i in 1..n; and on any live list list_add_to_back(v)
\* leaves the former elements where they were and v after them.
C1_AddToBackAppends ==
    /\ phase = "backs" =>
          /\ list_length(Mem) = Len(pushed)
          /\ \A i \in 1..Len(pushed) : list_get_elem_at(Mem, i) = pushed[i]
    /\ (Returned("list_add_to_back") /\ OnLiveList) =>
          /\ list_length(Mem) = list_length(old) + 1
          /\ \A i \in 1..list_length(old) :
                 list_get_elem_at(Mem, i) = list_get_elem_at(old, i)
          /\ list_get_elem_at(Mem, list_length(old) + 1) = op.value
          /\ Contents(Mem) = Append(Contents(old), op.value)

\* Three list_add_to_back calls on a new list, the first two values distinct.
C1_Witness ==
    /\ Returned("list_add_to_back")
    /\ phase = "backs"
    /\ Len(pushed) >= 3
    /\ pushed[1] # pushed[2]

\* C2: on any live list, list_add_to_front(v) makes list_get_elem_at(1)
\* return v, increases list_length by exactly 1, and moves every former
\* element one position later, in the same order.
C2_AddToFrontPrepends ==
    (Returned("list_add_to_front") /\ OnLiveList) =>
          /\ list_get_elem_at(Mem, 1) = op.value
          /\ list_length(Mem) = list_length(old) + 1
          /\ \A i \in 1..list_length(old) :
                 list_get_elem_at(Mem, i + 1) = list_get_elem_at(old, i)

\* list_add_to_front on a list of two distinct elements.
C2_Witness ==
    /\ Returned("list_add_to_front")
    /\ OnLiveList
    /\ list_length(old) >= 2
    /\ list_get_elem_at(old, 1) # list_get_elem_at(old, 2)

\* C3: on a list built by list_add_to_back(v1..vn), n >= 1, each
\* list_remove_from_back returns the last remaining value, decreases
\* list_length by exactly 1 and leaves the others in place: k calls return
\* vn, v(n-1), ..., v(n-k+1) and leave v1..v(n-k); after n calls the list is
\* empty, its head NULL.
C3_RemoveFromBackPops ==
    phase = "pops" =>
        LET n == Len(pushed)
            k == Len(popped)
        IN /\ k \in 1..n
           /\ \A j \in 1..k : popped[j] = pushed[n + 1 - j]
           /\ list_length(Mem) = n - k
           /\ \A i \in 1..(n - k) : list_get_elem_at(Mem, i) = pushed[i]
           /\ k = n => head = NULL
           /\ Returned("list_remove_from_back") =>
                 /\ op.ret = pushed[n - k + 1]
                 /\ list_length(Mem) = list_length(old) - 1

\* A list of at least two values, the first two distinct, emptied from the back.
C3_Witness ==
    /\ Returned("list_remove_from_back")
    /\ phase = "pops"
    /\ Len(pushed) >= 2
    /\ Len(popped) = Len(pushed)
    /\ pushed[1] # pushed[2]

\* C4: on a non-empty list list_remove_from_front returns the first
\* element's value, decreases list_length by 1 and leaves the remaining
\* elements in their order; on an empty list it returns the failure value and
\* the list stays empty.
C4_RemoveFromFront ==
    (Returned("list_remove_from_front") /\ OnLiveList) =>
        IF list_length(old) > 0
        THEN /\ op.ret = list_get_elem_at(old, 1)
             /\ list_length(Mem) = list_length(old) - 1
             /\ \A i \in 1..list_length(Mem) :
                    list_get_elem_at(Mem, i) = list_get_elem_at(old, i + 1)
        ELSE /\ op.ret = FAIL
             /\ list_length(Mem) = 0
             /\ Mem = old

\* list_remove_from_front on a list of three elements, the last two distinct.
C4_Witness ==
    /\ Returned("list_remove_from_front")
    /\ OnLiveList
    /\ list_length(old) >= 3
    /\ list_get_elem_at(old, 2) # list_get_elem_at(old, 3)

\* C5: on any live list, the empty one included, list_add_at_index(v, 1)
\* leaves the contents list_add_to_front(v) leaves, and
\* list_add_at_index(v, length + 1) the contents list_add_to_back(v) leaves.
C5_AddAtEndsEquivalent ==
    (Returned("list_add_at_index") /\ OnLiveList) =>
        \A n \in MallocChoices(old) \ {NULL} :
            /\ op.index = 1 =>
                   Contents(Mem) = Contents(list_add_to_front(old, op.value, n).m)
            /\ op.index = list_length(old) + 1 =>
                   Contents(Mem) = Contents(list_add_to_back(old, op.value, n).m)

\* list_add_at_index at length + 1 on a list of two elements that differ
\* from each other and from the new one.
C5_Witness ==
    /\ Returned("list_add_at_index")
    /\ OnLiveList
    /\ list_length(old) >= 2
    /\ op.index = list_length(old) + 1
    /\ list_get_elem_at(old, 1) # op.value
    /\ list_get_elem_at(old, 2) # op.value

\* C6: on a list of length n, for k in 2..n, list_add_at_index(v, k) inserts
\* v before the node at position k: afterwards list_get_elem_at(k) is v,
\* positions 1..k-1 are unchanged, the element formerly at j >= k is at j + 1,
\* and list_length is n + 1.
C6_AddAtIndexInserts ==
    (Returned("list_add_at_index") /\ OnLiveList
        /\ op.index \in 2..list_length(old)) =>
          /\ list_get_elem_at(Mem, op.index) = op.value
          /\ \A j \in 1..(op.index - 1) :
                 list_get_elem_at(Mem, j) = list_get_elem_at(old, j)
          /\ \A j \in op.index..list_length(old) :
                 list_get_elem_at(Mem, j + 1) = list_get_elem_at(old, j)
          /\ list_length(Mem) = list_length(old) + 1

\* list_add_at_index at 2 on a list of two elements, the new value unlike both.
C6_Witness ==
    /\ Returned("list_add_at_index")
    /\ OnLiveList
    /\ list_length(old) = 2
    /\ op.index = 2
    /\ list_get_elem_at(old, 1) # op.value
    /\ list_get_elem_at(old, 2) # op.value

\* C7: list_add_at_index(v, index) with index < 1 or index > length + 1
\* returns and leaves the list unchanged: same length, same contents in the
\* same order, no node allocated.
C7_AddAtBadIndexNoOp ==
    (op.name = "list_add_at_index"
        /\ (op.index < 1 \/ op.index > list_length(old) + 1)) =>
          /\ proc = "running"
          /\ list_length(Mem) = list_length(old)
          /\ Contents(Mem) = Contents(old)
          /\ alloc = old.alloc
          /\ Mem = old

\* list_add_at_index at length + 2 on a list of one element or more.
C7_Witness ==
    /\ Returned("list_add_at_index")
    /\ OnLiveList
    /\ list_length(old) >= 1
    /\ op.index = list_length(old) + 2

\* C8: on a list of length n >= 1, for k in 1..n, list_remove_at_index(k)
\* returns what list_get_elem_at(k) returned before, and removes that one
\* element: list_length is n - 1 and the others keep their order; and
\* list_remove_at_index(1) returns what list_remove_from_front returns and
\* leaves the list it leaves, in every list state, the empty one included.
C8_RemoveAtIndex ==
    (Returned("list_remove_at_index") /\ OnLiveList) =>
        /\ op.index \in 1..list_length(old) =>
              /\ op.ret = list_get_elem_at(old, op.index)
              /\ list_length(Mem) = list_length(old) - 1
              /\ \A j \in 1..(op.index - 1) :
                     list_get_elem_at(Mem, j) = list_get_elem_at(old, j)
              /\ \A j \in op.index..list_length(Mem) :
                     list_get_elem_at(Mem, j) = list_get_elem_at(old, j + 1)
        /\ op.index = 1 =>
              /\ op.ret = list_remove_from_front(old).ret
              /\ Mem = list_remove_from_front(old).m

\* list_remove_at_index at 2 on a list of three distinct elements.
C8_Witness ==
    /\ Returned("list_remove_at_index")
    /\ OnLiveList
    /\ list_length(old) = 3
    /\ op.index = 2
    /\ list_get_elem_at(old, 1) # list_get_elem_at(old, 2)
    /\ list_get_elem_at(old, 2) # list_get_elem_at(old, 3)
    /\ list_get_elem_at(old, 1) # list_get_elem_at(old, 3)

\* C9: list_remove_at_index(index) with index < 1 or index > length (the
\* boundary length + 1 and the empty list included) returns the failure
\* value and leaves the list unchanged: same length, same contents, no node
\* freed.
C9_RemoveAtBadIndexFails ==
    (op.name = "list_remove_at_index"
        /\ (op.index < 1 \/ op.index > list_length(old))) =>
          /\ proc = "running"
          /\ op.ret = FAIL
          /\ list_length(Mem) = list_length(old)
          /\ Contents(Mem) = Contents(old)
          /\ alloc = old.alloc
          /\ Mem = old

\* list_remove_at_index at length + 1 on a list of two elements or more.
C9_Witness ==
    /\ Returned("list_remove_at_index")
    /\ OnLiveList
    /\ list_length(old) >= 2
    /\ op.index = list_length(old) + 1

\* C10: on a list with contents s of length n, list_get_elem_at(index)
\* returns s[index] for index in 1..n and the failure value for index < 1 or
\* index > n (any index on an empty list).
C10_GetElemAt ==
    (Returned("list_get_elem_at") /\ OnLiveList) =>
        LET s == Contents(old)
        IN IF op.index \in 1..Len(s)
           THEN op.ret = s[op.index]
           ELSE op.ret = FAIL

\* list_get_elem_at at the last position of a list of three elements, the
\* last one neither the failure value nor equal to the other two.
C10_Witness ==
    /\ Returned("list_get_elem_at")
    /\ OnLiveList
    /\ Len(Contents(old)) = 3
    /\ op.index = 3
    /\ op.ret # FAIL
    /\ op.ret # Contents(old)[1]
    /\ op.ret # Contents(old)[2]

\* C11: list_get_index_of(v) returns the smallest position i with
\* list_get_elem_at(i) = v when there is one (the first occurrence, also
\* with duplicates) and the failure value otherwise; list_is_in(v) is true
\* exactly when some element equals v, that is exactly when
\* list_get_index_of(v) does not fail.
C11_IndexOfAndIsIn ==
    LET s == Contents(old)
        hits == {i \in 1..Len(s) : s[i] = op.value}
    IN /\ (Returned("list_get_index_of") /\ OnLiveList) =>
              /\ hits # {} =>
                    /\ op.ret \in hits
                    /\ \A i \in hits : op.ret <= i
                    /\ list_get_elem_at(old, op.ret) = op.value
              /\ hits = {} => op.ret = FAIL
              /\ (list_is_in(old, op.value) = true) <=> (op.ret # FAIL)
       /\ (Returned("list_is_in") /\ OnLiveList) =>
              /\ op.ret \in {true, false}
              /\ (op.ret = true) <=> (hits # {})
              /\ (op.ret = true) <=> (list_get_index_of(old, op.value) # FAIL)

\* list_get_index_of finds at position 2 a value that also stands at
\* position 3, in a list whose first element is another.
C11_Witness ==
    /\ Returned("list_get_index_of")
    /\ OnLiveList
    /\ Len(Contents(old)) = 3
    /\ Contents(old)[1] # op.value
    /\ Contents(old)[2] = op.value
    /\ Contents(old)[3] = op.value
    /\ op.ret = 2

\* The text the elements s are to be rendered as: each element in decimal
\* followed by "->", in order, then "NULL".
RECURSIVE Rendering(_)
Rendering(s) ==
    IF s = <<>> THEN <<"N", "U", "L", "L">>
    ELSE Decimal(Head(s)) \o <<"-", ">">> \o Rendering(Tail(s))

\* Reading a rendering back: the numbers before each "->".
DigitVal(ch) == CHOOSE d \in 0..9 : Digit(d) = ch

RECURSIVE ParseNat(_)
ParseNat(ds) ==
    IF ds = <<>> THEN 0
    ELSE ParseNat(SubSeq(ds, 1, Len(ds) - 1)) * 10 + DigitVal(ds[Len(ds)])

ParseInt(tok) == IF Head(tok) = "-" THEN 0 - ParseNat(Tail(tok)) ELSE ParseNat(tok)

Parsed(str) ==
    LET arrows == {i \in 1..Len(str) : str[i] = ">"}
        arrowAt(j) == CHOOSE i \in arrows : Cardinality({x \in arrows : x < i}) = j - 1
        start(j) == IF j = 1 THEN 1 ELSE arrowAt(j - 1) + 1
    IN [j \in 1..Cardinality(arrows) |->
            ParseInt(SubSeq(str, start(j), arrowAt(j) - 2))]

\* C12: for a list with contents v1..vk listToString returns exactly
\* "v1->v2->...->vk->NULL": each element in decimal followed by "->", in list
\* order, then "NULL", with no spaces, and exactly "NULL" for an empty list;
\* the text reads back as v1..vk; the list is not modified.  It returns a
\* string whenever no allocation fails.
C12_ToStringRenders ==
    (Returned("listToString") /\ OnLiveList) =>
        /\ Mem = old
        /\ op.failAt = 0 => op.ret # NULL
        /\ op.ret # NULL =>
              /\ op.str = Rendering(Contents(old))
              /\ \A i \in 1..Len(op.str) : op.str[i] # " "
              /\ Parsed(op.str) = Contents(old)
              /\ Contents(old) = <<>> => op.str = <<"N", "U", "L", "L">>

\* listToString on a list that starts with a large negative number, goes on
\* with another value, and is long enough for the buffer to have grown.
C12_Witness ==
    /\ Returned("listToString")
    /\ OnLiveList
    /\ op.ret # NULL
    /\ Len(Contents(old)) >= 2
    /\ Contents(old)[1] < -1
    /\ Contents(old)[2] >= 0
    /\ op.buf.capacity >= 2 * InitialCapacity

\* C19: during listToString every byte written (each element's text, the
\* NUL after it, the final "NULL" and its NUL) is at an offset below the
\* buffer's allocated size; the buffer starts at 256 bytes and its allocated
\* size never decreases; the returned string is not truncated: it has all
\* the characters of the rendering, and its NUL is inside the buffer.
C19_ToStringInBounds ==
    (Returned("listToString") /\ OnLiveList) =>
        /\ op.buf.inBounds
        /\ op.buf.grown
        /\ op.buf.calls > 0
        /\ (op.failAt # 1) =>
              /\ op.buf.first = 256
              /\ op.buf.size >= op.buf.first
        /\ op.ret # NULL =>
              /\ Len(op.str) = Len(Rendering(Contents(old)))
              /\ op.buf.used = Len(op.str)
              /\ op.buf.used < op.buf.size
              /\ \A o \in 0..op.buf.used : o \in DOMAIN op.buf.cells

\* listToString where the final "NULL" did not fit and the buffer was
\* enlarged for it to an exact size.
C19_Witness ==
    /\ Returned("listToString")
    /\ OnLiveList
    /\ op.ret # NULL
    /\ op.buf.size # op.buf.capacity
    /\ op.buf.size = op.buf.used + 1

\* C13: for a non-empty list, the text list_print writes to stdout before
\* the trailing newline is the string listToString returns for that list:
\* each element followed by the same arrow separator, then NULL.
C13_PrintMatchesToString ==
    (Returned("list_print") /\ OnLiveList /\ old.head # NULL) =>
        op.out = listToString(old, 0).str \o <<NL>>

\* C14: list_get_elem_at, list_get_index_of, list_remove_from_back,
\* list_remove_from_front and list_remove_at_index return the failure result
\* only when the list is empty or absent, the index is out of range, or the
\* value is not found, whatever values the list holds (-1 included), so that
\* the failure result tells a failed call from a successful one.
C14_FailureOnlyOnFailure ==
    LET s == Contents(old)
    IN (proc = "running" /\ op.ret = FAIL) =>
          /\ op.name = "list_get_elem_at" => op.index \notin 1..Len(s)
          /\ op.name = "list_get_index_of" =>
                 \A i \in 1..Len(s) : s[i] # op.value
          /\ op.name = "list_remove_from_back" => s = <<>>
          /\ op.name = "list_remove_from_front" => s = <<>>
          /\ op.name = "list_remove_at_index" => op.index \notin 1..Len(s)

\* C15: when the allocation of a node fails in list_add_to_back,
\* list_add_to_front or list_add_at_index, the call returns to the caller,
\* the list is as it was before, and the process is not terminated.
C15_AllocFailureRecoverable ==
    op.name \in {"list_add_to_back", "list_add_to_front", "list_add_at_index"} =>
        /\ proc = "running"
        /\ Cardinality(alloc) = Cardinality(old.alloc) => Mem = old

\* C16: on a list in any state the add and remove functions reach,
\* list_free releases every node reachable from the head exactly once, then
\* the list structure exactly once: afterwards no node of the list is
\* allocated (no leak), nothing was released twice, and no released node
\* was read.
C16_FreeReleasesAllOnce ==
    (Returned("list_free") /\ OnLiveList) =>
        LET n == Len(frees)
        IN /\ alloc = {}
           /\ n = Cardinality(old.alloc) + 1
           /\ {frees[i] : i \in 1..(n - 1)} = old.alloc
           /\ \A i, j \in 1..n : frees[i] = frees[j] => i = j
           /\ frees[n] = old.list
           /\ \A i \in 1..(n - 1) : frees[i] # old.list
           /\ stale = {}
           /\ list = NULL

\* list_free on a list of three nodes.
C16_Witness ==
    /\ Returned("list_free")
    /\ OnLiveList
    /\ Cardinality(old.alloc) = 3
    /\ Len(Contents(old)) = 3

\* The nodes the chain from cursor passes, and whether it ends in NULL
\* without passing a node twice or a node that is not allocated.
RECURSIVE Reach(_, _, _)
Reach(m, cursor, seen) ==
    IF cursor = NULL THEN [nodes |-> seen, ok |-> TRUE]
    ELSE IF cursor \in seen \/ cursor \notin m.alloc
    THEN [nodes |-> seen, ok |-> FALSE]
    ELSE Reach(m, m.next[cursor], seen \cup {cursor})

\* C17: after every call, with valid or invalid arguments, the chain from
\* the head is acyclic and ends in NULL, and the allocated nodes are exactly
\* the nodes reachable from the head: no removed node stays allocated, no
\* released node stays reachable, and list_length is the number of reachable
\* nodes.  Without a list no node is allocated.
C17_ChainIsTheHeap ==
    LET w == Reach(Mem, head, {})
    IN /\ list = NULL => alloc = {}
       /\ list # NULL =>
              /\ w.ok
              /\ w.nodes = alloc
              /\ list_length(Mem) = Cardinality(w.nodes)

\* A removal from the middle of a list of three nodes whose addresses were
\* handed out again after earlier removals.
C17_Witness ==
    /\ Returned("list_remove_at_index")
    /\ OnLiveList
    /\ phase = "other"
    /\ Cardinality(old.alloc) = 3
    /\ old.head # 1
    /\ op.index = 2
    /\ op.ret # FAIL

\* The functions that only look at the list.
Queries ==
    {"list_length", "list_is_in", "list_get_elem_at", "list_get_index_of",
     "listToString", "list_print"}

\* C18: list_length, list_is_in, list_get_elem_at, list_get_index_of,
\* listToString and list_print leave the list unchanged for every argument
\* and list state: head, every node's value and next are as before, and no
\* node is allocated or released.
C18_QueriesChangeNothing ==
    op.name \in Queries =>
        /\ proc = "running"
        /\ head = old.head /\ list = old.list
        /\ value = old.value /\ next = old.next
        /\ alloc = old.alloc /\ frees = <<>>
        /\ Mem = old

\* listToString returned the string of a list of two nodes or more.
C18_Witness ==
    /\ Returned("listToString")
    /\ OnLiveList
    /\ op.ret # NULL
    /\ Len(Contents(old)) >= 2

\* The calls on an absent list.
OnNullList == op.name \notin {"none", "list_alloc"} /\ old.list = NULL

\* C20: every function called with a NULL list is a no-op or a failure:
\* list_length returns 0, list_is_in false, list_get_elem_at,
\* list_get_index_of and the three removals the failure value, the three
\* additions do nothing and allocate nothing, listToString returns no string,
\* list_free does nothing, and list_print writes "LIST IS NULL", whereas for a
\* list that is there but empty it writes "LIST IS EMPTY".
C20_NullListHarmless ==
    /\ OnNullList =>
          /\ proc = "running"
          /\ Mem = old
          /\ alloc = {} /\ frees = <<>>
          /\ op.name = "list_length" => op.ret = 0
          /\ op.name = "list_is_in" => op.ret = false
          /\ op.name \in {"list_get_elem_at", "list_get_index_of",
                          "list_remove_from_back", "list_remove_from_front",
                          "list_remove_at_index"} => op.ret = FAIL
          /\ op.name = "listToString" =>
                 op.ret = NULL /\ op.str = <<>> /\ op.buf.calls = 0
          /\ op.name = "list_print" =>
                 op.out = <<"L", "I", "S", "T", " ", "I", "S", " ",
                            "N", "U", "L", "L", "\n">>
    /\ (Returned("list_print") /\ OnLiveList /\ old.head = NULL) =>
          op.out = <<"L", "I", "S", "T", " ", "I", "S", " ",
                     "E", "M", "P", "T", "Y", "\n">>

\* list_add_to_front called with a NULL list while malloc has a node to give.
C20_Witness ==
    /\ OnNullList
    /\ op.name = "list_add_to_front"
    /\ op.value # 0

====
